---- MODULE Spec2Model ----
(***************************************************************************)
(* Model of src/src/Tides/Tides.py (class Tide, class LatLon).             *)
(*                                                                         *)
(* A Tide object holds a model name and a model directory.  One call of    *)
(* Tide.tidal_elevation is one action: it converts the timestamps, loads   *)
(* the model, reads and interpolates the harmonic constants, culls the     *)
(* constituent names, predicts on the map path or on the time-series path  *)
(* and labels the result.  The calls into pyTMD, timescale and xarray are  *)
(* recorded in logs; what the libraries compute is represented by integer  *)
(* stand-ins that keep every argument distinguishable (which constant is   *)
(* paired with which constituent name, which epoch time, which location).  *)
(***************************************************************************)
EXTENDS Integers, Sequences, FiniteSets, TLC

VARIABLES
    self,        \* the Tide object: [model, model_loc]
    phase,       \* "idle" | "returned": position of the caller
    call,        \* the last tidal_elevation call: its arguments, the values
                 \* it computed, the library calls it made and how it ended
    mapOut,      \* result of a direct tidal_elevation_map call
    tsOut        \* result of a direct tidal_elevation_time_series call

vars == <<self, phase, call, mapOut, tsOut>>

----------------------------------------------------------------------------
(* Bounds of the model *)

MaxLocs == 2
MaxTimes == 2
NumFields == 3

----------------------------------------------------------------------------
(* Input domains *)

Lons == {-70, 10}
Lats == {-75, -80}

Dates == [year : {1992}, month : {1}, day : {1}, hour : {0},
          minute : {0, 1}, second : {0, 30}]

\* Constituent order of the CATS2008 model file.
CATSFields == <<"m2", "s2", "n2", "k2", "k1", "o1", "p1", "q1", "mf", "mm">>

\* constituents.fields of the model that is read (the first NumFields names).
ModelFields == SubSeq(CATSFields, 1, NumFields)

Range(s) == {s[i] : i \in 1..Len(s)}

\* Names a caller may ask for: the model's names and one the model lacks.
RequestNames == Range(ModelFields) \cup {"zz"}

\* consts=None is [given |-> FALSE]; consts=[...] is [given |-> TRUE, names].
NoConsts == [given |-> FALSE, names |-> {}]
ConstsArgs == {NoConsts} \cup [given : {TRUE}, names : SUBSET RequestNames]

SeqsOf(S, lo, hi) == UNION {[1..n -> S] : n \in lo..hi}

Min(a, b) == IF a < b THEN a ELSE b
Max(a, b) == IF a < b THEN b ELSE a

----------------------------------------------------------------------------
(* timescale.time.convert_calendar_dates, epoch 1992-01-01T00:00:00.       *)
(* The library returns days; the model counts minutes (days * 1440) to     *)
(* stay in the integers.  The call passes no second, so second = 0.        *)

IsLeap(y) == y % 4 = 0 /\ (y % 100 # 0 \/ y % 400 = 0)

DaysInMonth(y, m) ==
    IF m = 2 THEN (IF IsLeap(y) THEN 29 ELSE 28)
    ELSE IF m \in {4, 6, 9, 11} THEN 30 ELSE 31

RECURSIVE DaysBeforeMonth(_, _)
DaysBeforeMonth(y, m) ==
    IF m <= 1 THEN 0 ELSE DaysBeforeMonth(y, m - 1) + DaysInMonth(y, m - 1)

RECURSIVE DaysBeforeYear(_)
DaysBeforeYear(y) ==
    IF y <= 1992 THEN 0
    ELSE DaysBeforeYear(y - 1) + (IF IsLeap(y - 1) THEN 366 ELSE 365)

ConvertCalendarDates(year, month, day, hour, minute) ==
    (DaysBeforeYear(year) + DaysBeforeMonth(year, month) + (day - 1)) * 1440
    + hour * 60 + minute

\* A plausible slip: the seconds of the timestamp enter the epoch time.
TideTimeWithSeconds(datetimes) ==
    [i \in 1..Len(datetimes) |->
        ConvertCalendarDates(datetimes[i].year, datetimes[i].month,
                             datetimes[i].day, datetimes[i].hour,
                             datetimes[i].minute) * 60 + datetimes[i].second]

\* Lines 75-85: years, months, days, hours, minutes -> tide_time.
TideTime(datetimes) ==
    [i \in 1..Len(datetimes) |->
        ConvertCalendarDates(datetimes[i].year, datetimes[i].month,
                             datetimes[i].day, datetimes[i].hour,
                             datetimes[i].minute)]

----------------------------------------------------------------------------
(* Harmonic constants.  interpolate_constants returns, for every location  *)
(* and every model constituent, amplitude and phase; hc = amp * exp(cph).  *)
(* A constant is represented by where it was interpolated and for which    *)
(* constituent: [lon, lat, field].                                         *)

\* Outcomes of interpolate_constants the libraries can produce.  With equal
\* lengths it succeeds.  With unequal lengths the coordinate conversion
\* either raises, or (when one side has length 1) broadcasts.
InterpOutcomes(lons, lats) ==
    IF Len(lons) = Len(lats) THEN {"ok"}
    ELSE IF Min(Len(lons), Len(lats)) = 1 THEN {"error", "broadcast"}
    ELSE {"error"}

At(s, j) == IF Len(s) = 1 THEN s[1] ELSE s[j]

InterpolateConstants(lons, lats) ==
    [j \in 1..Max(Len(lons), Len(lats)) |->
        [k \in 1..Len(ModelFields) |->
            [lon |-> At(lons, j), lat |-> At(lats, j), field |-> ModelFields[k]]]]

\* Lines 115-117: c = c[np.isin(c, consts)] when consts is not None.
Cull(fields, consts) ==
    IF consts.given
    THEN SelectSeq(fields, LAMBDA n : n \in consts.names)
    ELSE fields

----------------------------------------------------------------------------
(* Integer stand-ins for what pyTMD computes.  predict.map and             *)
(* predict.time_series both sum, over the positions k of the constituent   *)
(* list, column k of hc times the oscillation of the constituent named at  *)
(* position k; infer_minor derives a correction from the same pairing.     *)

FieldNo(name) == CHOOSE k \in 1..Len(CATSFields) : CATSFields[k] = name

HcValue(h) == FieldNo(h.field) * 100 + (h.lon + 180) \div 10 + (h.lat + 90)

Osc(name, t) == ((FieldNo(name) * (t + 1)) % 5) - 2

MinorOsc(name, t) == ((FieldNo(name) + t) % 3) + 1

Wave(minor, name, t) == IF minor THEN MinorOsc(name, t) ELSE Osc(name, t)

RECURSIVE HarmonicSum(_, _, _, _, _)
HarmonicSum(minor, t, row, names, k) ==
    IF k = 0 THEN 0
    ELSE HarmonicSum(minor, t, row, names, k - 1)
         + HcValue(row[k]) * Wave(minor, names[k], t)

\* pyTMD.predict.map(t, hc, c): one value per location.
PredictMap(t, hcs, names) ==
    [j \in 1..Len(hcs) |-> HarmonicSum(FALSE, t, hcs[j], names, Len(names))]

\* pyTMD.predict.time_series(t, hc, c): one value per time, location 0.
PredictTimeSeries(ts, hcs, names) ==
    [i \in 1..Len(ts) |-> HarmonicSum(FALSE, ts[i], hcs[1], names, Len(names))]

\* pyTMD.predict.infer_minor with a scalar time: one value per location.
InferMinorMap(t, hcs, names) ==
    [j \in 1..Len(hcs) |-> HarmonicSum(TRUE, t, hcs[j], names, Len(names))]

\* pyTMD.predict.infer_minor with a time vector: one value per time.
InferMinorTimeSeries(ts, hcs, names) ==
    [i \in 1..Len(ts) |-> HarmonicSum(TRUE, ts[i], hcs[1], names, Len(names))]

----------------------------------------------------------------------------
(* The two prediction helpers (static methods of Tide).  delat is always   *)
(* zero and model.format is fixed, so neither changes a value.             *)

\* A plausible slip: the minor correction is added whatever consts is.
TidalElevationMapAlwaysMinor(t, hcs, names, consts) ==
    LET TIDE  == PredictMap(t, hcs, names)
        MINOR == InferMinorMap(t, hcs, names)
    IN  [j \in 1..Len(TIDE) |-> (TIDE[j] + MINOR[j]) * 100]

\* Lines 171-181.
TidalElevationMap(t, hcs, names, consts) ==
    LET TIDE  == PredictMap(t, hcs, names)
        MINOR == InferMinorMap(t, hcs, names)
        SUMMED == IF ~consts.given
                  THEN [j \in 1..Len(TIDE) |-> TIDE[j] + MINOR[j]]
                  ELSE TIDE
    IN  [j \in 1..Len(SUMMED) |-> SUMMED[j] * 100]

\* A plausible slip: the time-series helper leaves out the minor correction.
TidalElevationTimeSeriesNoMinor(ts, hcs, names, consts) ==
    LET TIDE == PredictTimeSeries(ts, hcs, names)
    IN  [i \in 1..Len(TIDE) |-> TIDE[i] * 100]

\* Lines 206-216.
TidalElevationTimeSeries(ts, hcs, names, consts) ==
    LET TIDE  == PredictTimeSeries(ts, hcs, names)
        MINOR == InferMinorTimeSeries(ts, hcs, names)
        SUMMED == IF ~consts.given
                  THEN [i \in 1..Len(TIDE) |-> TIDE[i] + MINOR[i]]
                  ELSE TIDE
    IN  [i \in 1..Len(SUMMED) |-> SUMMED[i] * 100]

----------------------------------------------------------------------------
(* Branch selection and assembly of the grid (lines 119-142).              *)

\* A plausible slip, the rule the docstring describes: compare the counts.
UseMapPathRelative(lons, datetimes) == Len(lons) > Len(datetimes)

\* Line 119: if len(lons) > 1.
UseMapPath(lons, datetimes) == Len(lons) > 1

\* Lines 120-125: one tidal_elevation_map call per timestamp, appended.
MapHolder(times, hcs, names, consts) ==
    [i \in 1..Len(times) |-> TidalElevationMap(times[i], hcs, names, consts)]

\* A plausible slip: the transpose is left out.
TimeSeriesHolderNoTranspose(TIDE) == <<TIDE>>

\* Line 130: np.atleast_2d(tide_holder).T.tolist(): one row per time.
TimeSeriesHolder(TIDE) == [i \in 1..Len(TIDE) |-> <<TIDE[i]>>]

\* class LatLon (lines 219-222).
LatLon(lat, lon) == [lat |-> lat, lon |-> lon]

\* A plausible slip: the two coordinates are stored the other way round.
ObjArrSwapped(lats, lons) ==
    [j \in 1..Min(Len(lats), Len(lons)) |-> LatLon(lons[j], lats[j])]

\* Line 133: [LatLon(lat, lon) for lat, lon in zip(lats, lons)].
ObjArr(lats, lons) ==
    [j \in 1..Min(Len(lats), Len(lons)) |-> LatLon(lats[j], lons[j])]

\* xr.DataArray accepts data only if its shape fits the two coordinates.
ShapeFits(datetimes, obj_arr, data) ==
    /\ Len(data) = Len(datetimes)
    /\ \A i \in 1..Len(data) : Len(data[i]) = Len(obj_arr)

NoGrid == [t |-> <<>>, lat_lon |-> <<>>, data |-> <<>>]

\* Lines 134-142.
DataArray(datetimes, obj_arr, data) ==
    [t |-> datetimes, lat_lon |-> obj_arr, data |-> data]

\* Lines 119-130: the branch, returning tide_holder and the prediction
\* calls made for it, in the order they are made.
Predict(lons, datetimes, times, hcs, names, consts) ==
    IF UseMapPath(lons, datetimes)
    THEN [holder |-> MapHolder(times, hcs, names, consts),
          log    |-> [i \in 1..Len(datetimes) |->
                        [fn |-> "map", t |-> <<times[i]>>, npts |-> Len(hcs)]]]
    ELSE [holder |-> TimeSeriesHolder(
                        TidalElevationTimeSeries(times, hcs, names, consts)),
          log    |-> <<[fn |-> "time_series", t |-> times, npts |-> Len(hcs)]>>]

----------------------------------------------------------------------------
(* Tide.tidal_elevation, lines 74-144, as one step.  interp is the outcome *)
(* of interpolate_constants.                                               *)

ModelIO == <<"model", "read_constants", "interpolate_constants">>

NoCall == [lons |-> <<>>, lats |-> <<>>, datetimes |-> <<>>, consts |-> NoConsts,
           tide_time |-> <<>>, ioLog |-> <<>>, hc |-> <<>>, c |-> <<>>,
           stdout |-> <<>>, predLog |-> <<>>, outcome |-> "none",
           tides |-> NoGrid]

tidal_elevation(lons, lats, datetimes, consts, interp) ==
    LET times == TideTime(datetimes)
        entry == [NoCall EXCEPT !.lons = lons, !.lats = lats,
                                !.datetimes = datetimes, !.consts = consts,
                                !.tide_time = times, !.ioLog = ModelIO]
    IN  IF interp = "error"
        THEN [entry EXCEPT !.c = ModelFields, !.outcome = "ProjError"]
        ELSE
          LET hcs     == InterpolateConstants(lons, lats)
              names   == Cull(ModelFields, consts)
              pred    == Predict(lons, datetimes, times, hcs, names, consts)
              holder  == pred.holder
              obj_arr == ObjArr(lats, lons)
              ran     == [entry EXCEPT !.hc = hcs, !.c = names,
                                       !.stdout = <<names>>,
                                       !.predLog = pred.log]
          IN  IF ShapeFits(datetimes, obj_arr, holder)
              THEN [ran EXCEPT !.outcome = "ok",
                               !.tides = DataArray(datetimes, obj_arr, holder)]
              ELSE [ran EXCEPT !.outcome = "ValueError"]

----------------------------------------------------------------------------
(* The state machine: a caller that owns one Tide object.                  *)

NoOut == [called |-> FALSE, t |-> <<>>, out |-> <<>>]

Init ==
    /\ self = [model |-> "CATS2008", model_loc |-> "models"]
    /\ phase = "idle"
    /\ call = NoCall
    /\ mapOut = NoOut
    /\ tsOut = NoOut

\* tides = Tide(...).tidal_elevation(lons, lats, datetimes, consts)
TidalElevation ==
    /\ phase = "idle"
    /\ \E lons \in SeqsOf(Lons, 1, MaxLocs), lats \in SeqsOf(Lats, 1, MaxLocs),
          datetimes \in SeqsOf(Dates, 1, MaxTimes), consts \in ConstsArgs :
          \E interp \in InterpOutcomes(lons, lats) :
             call' = tidal_elevation(lons, lats, datetimes, consts, interp)
    /\ phase' = "returned"
    /\ UNCHANGED <<self, mapOut, tsOut>>

\* Tide.tidal_elevation_map called on the values of the last call, for one
\* of its epoch times.
TidalElevationMapCall ==
    /\ phase = "returned"
    /\ call.outcome = "ok"
    /\ ~mapOut.called
    /\ \E i \in 1..Len(call.tide_time) :
          mapOut' = [called |-> TRUE, t |-> <<call.tide_time[i]>>,
                     out |-> TidalElevationMap(call.tide_time[i], call.hc,
                                               call.c, call.consts)]
    /\ UNCHANGED <<self, phase, call, tsOut>>

\* Tide.tidal_elevation_time_series called on the values of the last call.
TidalElevationTimeSeriesCall ==
    /\ phase = "returned"
    /\ call.outcome = "ok"
    /\ ~tsOut.called
    /\ tsOut' = [called |-> TRUE, t |-> call.tide_time,
                 out |-> TidalElevationTimeSeries(call.tide_time, call.hc,
                                                  call.c, call.consts)]
    /\ UNCHANGED <<self, phase, call, mapOut>>

\* The caller drops the results; the Tide object keeps no state of a call.
Return ==
    /\ phase = "returned"
    /\ phase' = "idle"
    /\ call' = NoCall
    /\ mapOut' = NoOut
    /\ tsOut' = NoOut
    /\ UNCHANGED self

Next ==
    \/ TidalElevation
    \/ TidalElevationMapCall
    \/ TidalElevationTimeSeriesCall
    \/ Return

Spec == Init /\ [][Next]_vars

----------------------------------------------------------------------------
(* Properties *)

Returned == phase = "returned"
EqualLengths == Len(call.lons) = Len(call.lats)
Succeeded == Returned /\ EqualLengths /\ call.outcome = "ok"
OnMapPath == Len(call.lons) > 1

\* C1: a call with len(lons) # len(lats) ends in InputShapeError, raised
\* before the model is loaded, the constants are read or interpolated, and
\* it returns no grid.
C1_ShapeErrorBeforeModelIO ==
    (Returned /\ ~EqualLengths) =>
        /\ call.outcome = "InputShapeError"
        /\ call.ioLog = <<>>
        /\ call.tides = NoGrid

\* C2: a call with equal-length lons/lats and non-empty datetimes succeeds
\* and its grid has len(datetimes) rows and len(lons) columns, on the map
\* path and on the time-series path.
C2_GridShape ==
    (Returned /\ EqualLengths) =>
        /\ call.outcome = "ok"
        /\ Len(call.tides.data) = Len(call.datetimes)
        /\ \A i \in 1..Len(call.tides.data) :
              Len(call.tides.data[i]) = Len(call.lons)

C2_Witness ==
    /\ Succeeded
    /\ ~OnMapPath
    /\ Len(call.datetimes) = 2
    /\ Len(call.tides.data) = 2

\* The 1 x 1 grid value tidal_elevation gives for one location and one time.
PointValue(lon, lat, datetime, consts) ==
    tidal_elevation(<<lon>>, <<lat>>, <<datetime>>, consts, "ok").tides.data[1][1]

\* C3: the time labels are the datetimes in input order, the j-th location
\* label is (lats[j], lons[j]), and cell (i, j) is the prediction for
\* datetimes[i] at (lons[j], lats[j]), on both paths.
C3_LabelsAndCellsInInputOrder ==
    Succeeded =>
        /\ call.tides.t = call.datetimes
        /\ Len(call.tides.lat_lon) = Len(call.lons)
        /\ \A j \in 1..Len(call.lons) :
              /\ call.tides.lat_lon[j].lat = call.lats[j]
              /\ call.tides.lat_lon[j].lon = call.lons[j]
        /\ \A i \in 1..Len(call.datetimes) : \A j \in 1..Len(call.lons) :
              call.tides.data[i][j] =
                  PointValue(call.lons[j], call.lats[j], call.datetimes[i],
                             call.consts)

C3_Witness ==
    /\ Succeeded
    /\ OnMapPath
    /\ Len(call.datetimes) = 2
    /\ call.lons[1] # call.lons[2]
    /\ call.lats[1] # call.lats[2]
    /\ call.tides.data[1][1] # call.tides.data[1][2]
    /\ call.tides.data[1][1] # call.tides.data[2][1]

\* C4: every value of the grid is (major + minor) * 100 when consts is None
\* and major * 100 when consts is given, also when consts names every
\* constituent of the model; on both paths.
C4_MinorIffConstsOmitted ==
    Succeeded =>
        \A i \in 1..Len(call.datetimes) : \A j \in 1..Len(call.lons) :
            LET major == IF OnMapPath
                         THEN PredictMap(call.tide_time[i], call.hc, call.c)[j]
                         ELSE PredictTimeSeries(call.tide_time, call.hc, call.c)[i]
                minor == IF OnMapPath
                         THEN InferMinorMap(call.tide_time[i], call.hc, call.c)[j]
                         ELSE InferMinorTimeSeries(call.tide_time, call.hc, call.c)[i]
            IN  call.tides.data[i][j] =
                    IF call.consts.given THEN major * 100
                    ELSE (major + minor) * 100

C4_Witness ==
    /\ Succeeded
    /\ OnMapPath
    /\ call.consts.given
    /\ Range(ModelFields) \subseteq call.consts.names
    /\ call.c = ModelFields
    /\ InferMinorMap(call.tide_time[1], call.hc, call.c)[1] # 0

\* C5: a call whose consts holds a name the model lacks ends in an error
\* and returns no grid.
C5_UnknownConstituentFails ==
    (Returned /\ call.consts.given
              /\ ~(call.consts.names \subseteq Range(ModelFields))) =>
        /\ call.outcome # "ok"
        /\ call.tides = NoGrid

\* C6: for one location and one time, tidal_elevation_map and
\* tidal_elevation_time_series, given the same epoch time, constants,
\* constituent list and consts, return the same value whenever the library's
\* map and time-series predictions agree.
C6_MapAndTimeSeriesAgree ==
    (/\ mapOut.called /\ tsOut.called
     /\ Len(call.hc) = 1 /\ Len(call.tide_time) = 1
     /\ PredictMap(call.tide_time[1], call.hc, call.c)[1]
          = PredictTimeSeries(call.tide_time, call.hc, call.c)[1]) =>
        /\ mapOut.t = tsOut.t
        /\ Len(mapOut.out) = 1 /\ Len(tsOut.out) = 1
        /\ mapOut.out[1] = tsOut.out[1]

C6_Witness ==
    /\ mapOut.called /\ tsOut.called
    /\ Len(call.hc) = 1 /\ Len(call.tide_time) = 1
    /\ ~call.consts.given
    /\ mapOut.out[1] # 0
    /\ InferMinorMap(call.tide_time[1], call.hc, call.c)[1] # 0

\* C8: with a constituent subset, column k of the harmonic constants handed
\* to the prediction is the one interpolated for the constituent named at
\* position k of the constituent list handed to it.
C8_ConstantsPairedWithNames ==
    (Returned /\ call.outcome = "ok" /\ call.consts.given) =>
        \A j \in 1..Len(call.hc) : \A k \in 1..Len(call.c) :
            call.hc[j][k].field = call.c[k]

SameToTheMinute(d, e) == [d EXCEPT !.second = e.second] = e

\* C10: two timestamps of a call that differ only in seconds get the same
\* epoch time and the same predicted row, while the time labels of the grid
\* are the original timestamps.
C10_SecondsIgnored ==
    Succeeded =>
        /\ call.tides.t = call.datetimes
        /\ \A i, l \in 1..Len(call.datetimes) :
              SameToTheMinute(call.datetimes[i], call.datetimes[l]) =>
                  /\ call.tide_time[i] = call.tide_time[l]
                  /\ call.tides.data[i] = call.tides.data[l]

C10_Witness ==
    /\ Succeeded
    /\ Len(call.datetimes) = 2
    /\ call.datetimes[1] # call.datetimes[2]
    /\ SameToTheMinute(call.datetimes[1], call.datetimes[2])
    /\ call.tides.t[1] # call.tides.t[2]
    /\ call.tides.data[1] = call.tides.data[2]

====
